---- MODULE Spec2Model ----
(***************************************************************************)
(* calcnote: the line-oriented calculator of src/src/calculator.ts, its    *)
(* presentation formatter, and the editor and tab bar that drive them      *)
(* (src/src/editor.ts, src/src/tabs.ts).                                   *)
(*                                                                         *)
(* A text is a sequence of characters; a character is a one-character      *)
(* string.  The non-ASCII characters the model uses are written by their   *)
(* code point: "U+623F" and "U+6C34" are two CJK letters, "U+00B7" is the  *)
(* middle dot.  Each of these strings stands for ONE character.            *)
(***************************************************************************)
EXTENDS Integers, Sequences, FiniteSets, TLC

VARIABLES
    pc,              \* "idle": no pass yet; "loop": inside calculate's for loop; "done": returned
    text,            \* calculate's argument
    lines,           \* text.split('\n')
    i,               \* the loop index (0-based, as in the code)
    results,         \* results: LineResult[]
    scope,           \* scope: Record<string, unknown>
    previousAnswer,  \* previousAnswer: unknown
    mapping,         \* mapping: VarMapping
    last,            \* history: what the latest loop iteration did
    assigned,        \* history: the variables the lines of the pass assigned so far
    memo,            \* history: one earlier pass's text and returned results
    str,             \* a raw display string handed to formatNumber
    shown,           \* what formatNumber returned for str, and for what it returned
    inputArea,       \* inputArea.value
    lastResult,      \* lastResult: CalcResult | null
    rafId,           \* rafId: number | null (0 is null)
    frames,          \* the handles of the animation-frame callbacks the browser holds
    outputArea,      \* the text of each div of outputArea
    exported,        \* the text of the latest export
    state,           \* state: TabState
    localStorage     \* localStorage: the items under TABS_KEY and OLD_KEY

calcVars == <<pc, text, lines, i, results, scope, previousAnswer, mapping, last, assigned, memo>>

formatVars == <<str, shown>>

editorVars == <<inputArea, lastResult, rafId, frames, outputArea, exported>>

tabVars == <<state, localStorage>>

vars == <<calcVars, formatVars, editorVars, tabVars>>

-----------------------------------------------------------------------------
(* Characters and character classes                                        *)

NL == "\n"

Digit == {"0", "1", "2", "3", "4", "5", "6", "7", "8", "9"}

LowerSeq == <<"a", "b", "c", "d", "e", "f", "g", "h", "i", "j", "k", "l", "m",
              "n", "o", "p", "q", "r", "s", "t", "u", "v", "w", "x", "y", "z">>

UpperSeq == <<"A", "B", "C", "D", "E", "F", "G", "H", "I", "J", "K", "L", "M",
              "N", "O", "P", "Q", "R", "S", "T", "U", "V", "W", "X", "Y", "Z">>

AsciiLetter == {LowerSeq[k] : k \in 1..26} \cup {UpperSeq[k] : k \in 1..26}

\* the CJK letters of the model (category L, outside \x00-\x7F)
CjkLetter == {"U+623F", "U+6C34"}

\* every character of the model outside \x00-\x7F
NonAscii == CjkLetter \cup {"U+00B7"}

\* \p{L}
UnicodeL == AsciiLetter \cup CjkLetter

\* \p{N}
UnicodeN == Digit

\* \w of a JavaScript regex without the u flag
WordChar == AsciiLetter \cup Digit \cup {"_"}

\* \s, as far as a single line can hold it
WhiteSpace == {" ", "\t"}

\* String.prototype.toLowerCase on one character (what the i flag folds)
toLowerCase(c) ==
    IF \E k \in 1..26 : UpperSeq[k] = c
    THEN LowerSeq[CHOOSE k \in 1..26 : UpperSeq[k] = c]
    ELSE c

-----------------------------------------------------------------------------
(* Values                                                                  *)

\* null / undefined
Null == [t |-> "null"]

\* a string value
Str(s) == [t |-> "str", s |-> s]

RECURSIVE gcd(_, _)
gcd(a, b) == IF b = 0 THEN a ELSE gcd(b, a % b)

Abs(n) == IF n < 0 THEN -n ELSE n

\* a BigNumber: the rational n/d in lowest terms, d > 0
Num(n, d) ==
    LET g == gcd(Abs(n), Abs(d))
        s == IF d < 0 THEN -1 ELSE 1
    IN [t |-> "num", n |-> s * (n \div g), d |-> s * (d \div g)]

Bool(b) == [t |-> "bool", b |-> b]

-----------------------------------------------------------------------------
(* String helpers                                                          *)

\* String.prototype.indexOf for one character, 1-based; 0 when absent
IndexOf(s, c) ==
    IF \E p \in 1..Len(s) : s[p] = c
    THEN CHOOSE p \in 1..Len(s) : s[p] = c /\ \A q \in 1..(p - 1) : s[q] # c
    ELSE 0

\* String.prototype.split('\n')
RECURSIVE Split(_)
Split(s) ==
    LET p == IndexOf(s, NL)
    IN IF p = 0 THEN <<s>>
       ELSE <<SubSeq(s, 1, p - 1)>> \o Split(SubSeq(s, p + 1, Len(s)))

\* String.prototype.trim
RECURSIVE TrimLeft(_)
TrimLeft(s) == IF s # <<>> /\ Head(s) \in WhiteSpace THEN TrimLeft(Tail(s)) ELSE s

RECURSIVE TrimRight(_)
TrimRight(s) ==
    IF s # <<>> /\ s[Len(s)] \in WhiteSpace THEN TrimRight(SubSeq(s, 1, Len(s) - 1)) ELSE s

Trim(s) == TrimRight(TrimLeft(s))

\* the decimal digits of a natural number
RECURSIVE NatToString(_)
NatToString(n) ==
    LET d == <<"0", "1", "2", "3", "4", "5", "6", "7", "8", "9">>[(n % 10) + 1]
    IN IF n < 10 THEN <<d>> ELSE Append(NatToString(n \div 10), d)

DigitValue(c) == CHOOSE k \in 0..9 : NatToString(k) = <<c>>

\* the end of the longest run of characters of class cls that starts at p
\* (p - 1 when s[p] is not in cls)
RECURSIVE RunEnd(_, _, _)
RunEnd(s, p, cls) ==
    IF p <= Len(s) /\ s[p] \in cls THEN RunEnd(s, p + 1, cls) ELSE p - 1

\* a digit string plus one in its last place
RECURSIVE Increment(_)
Increment(ds) ==
    IF ds = <<>> THEN <<"1">>
    ELSE IF ds[Len(ds)] = "9" THEN Append(Increment(SubSeq(ds, 1, Len(ds) - 1)), "0")
    ELSE Append(SubSeq(ds, 1, Len(ds) - 1), NatToString(DigitValue(ds[Len(ds)]) + 1)[1])

RECURSIVE StripTrailingZeros(_)
StripTrailingZeros(ds) ==
    IF ds # <<>> /\ ds[Len(ds)] = "0" THEN StripTrailingZeros(SubSeq(ds, 1, Len(ds) - 1)) ELSE ds

RECURSIVE StripLeadingZeros(_)
StripLeadingZeros(ds) ==
    IF ds # <<>> /\ Head(ds) = "0" THEN StripLeadingZeros(Tail(ds)) ELSE ds

-----------------------------------------------------------------------------
(* Variable aliasing                                                       *)

\* /[^\x00-\x7F]/.test(s)
hasUnicodeLetter(s) == \E p \in 1..Len(s) : s[p] \in NonAscii

\* `_v${counter}`
AliasName(counter) == <<"_", "v">> \o NatToString(counter)

\* an allocation that forgets to advance the counter
getAliasNoIncrement(m, cnName) ==
    IF cnName \in DOMAIN m.cnToAlias
    THEN [alias |-> m.cnToAlias[cnName], mapping |-> m]
    ELSE [alias |-> AliasName(m.counter),
          mapping |-> [cnToAlias |-> (cnName :> AliasName(m.counter)) @@ m.cnToAlias,
                       counter |-> m.counter]]

getAlias(m, cnName) ==
    IF cnName \in DOMAIN m.cnToAlias
    THEN [alias |-> m.cnToAlias[cnName], mapping |-> m]
    ELSE [alias |-> AliasName(m.counter),
          mapping |-> [cnToAlias |-> (cnName :> AliasName(m.counter)) @@ m.cnToAlias,
                       counter |-> m.counter + 1]]

\* line.replace(/[\p{L}_][\p{L}\p{N}_]*/gu, callback): the matches are found left
\* to right, each the longest identifier starting there
RECURSIVE replaceFrom(_, _, _, _)
replaceFrom(line, p, out, m) ==
    IF p > Len(line) THEN [line |-> out, mapping |-> m]
    ELSE IF line[p] \in UnicodeL \cup {"_"}
    THEN LET e == RunEnd(line, p + 1, UnicodeL \cup UnicodeN \cup {"_"})
             match == SubSeq(line, p, e)
             g == getAlias(m, match)
         IN IF hasUnicodeLetter(match)
            THEN replaceFrom(line, e + 1, out \o g.alias, g.mapping)
            ELSE replaceFrom(line, e + 1, out \o match, m)
    ELSE replaceFrom(line, p + 1, Append(out, line[p]), m)

replaceChineseVars(line, m) == replaceFrom(line, 1, <<>>, m)

-----------------------------------------------------------------------------
(* Percent literals                                                        *)

\* the end of the match of /(\d+(?:\.\d+)?)%/ that starts at p, 0 when there is
\* none: \d+ is greedy, and giving digits back never helps, since the character
\* after a shorter run is a digit
PercentMatchEnd(s, p) ==
    LET e1 == RunEnd(s, p, Digit)
        e2 == IF e1 + 2 <= Len(s) /\ s[e1 + 1] = "." /\ s[e1 + 2] \in Digit
              THEN RunEnd(s, e1 + 2, Digit) ELSE e1
    IN IF e1 < p THEN 0
       ELSE IF e2 + 1 <= Len(s) /\ s[e2 + 1] = "%" THEN e2 + 1
       ELSE IF e1 + 1 <= Len(s) /\ s[e1 + 1] = "%" THEN e1 + 1
       ELSE 0

RECURSIVE percentFrom(_, _, _)
percentFrom(s, p, out) ==
    IF p > Len(s) THEN out
    ELSE LET e == PercentMatchEnd(s, p)
         IN IF e = 0 THEN percentFrom(s, p + 1, Append(out, s[p]))
            ELSE percentFrom(s, e + 1,
                     out \o <<"(">> \o SubSeq(s, p, e - 1) \o <<"/", "1", "0", "0", ")">>)

\* line.replace(/(\d+(?:\.\d+)?)%/g, '($1/100)')
preprocessPercent(line) == percentFrom(line, 1, <<>>)

-----------------------------------------------------------------------------
(* The expression engine behind math.evaluate and math.format.  The engine  *)
(* is the mathjs library, which the repository imports and configures       *)
(* (BigNumber arithmetic) but does not contain.  The model covers the part  *)
(* of its grammar that the lines of LineSet reach: decimal literals,        *)
(* symbols, true/false, unary minus, + - * /, parentheses and assignment.   *)
(* A shape outside that part (another operator, implicit multiplication, a  *)
(* function call, division by zero) evaluates to the outcome "unmodelled",  *)
(* which EngineInputModelled shows no pass of the model ever reaches.       *)
(* A BigNumber is an exact rational n/d of two integers, or, when it has    *)
(* more digits than such integers hold, an exact decimal given by its       *)
(* digits; of the arithmetic on the latter the model covers multiplication  *)
(* by an integer.  The engine keeps 64 significant digits, far more than    *)
(* the 12 that math.format shows.                                           *)

ModelledDelimiter == {"+", "-", "*", "/", "(", ")", "="}

OtherDelimiter ==
    {"%", "^", "!", "'", ",", ";", ":", "[", "]", "{", "}", "\"", "<", ">", "&", "|",
     "~", "?", ".", "#"}

\* the value of a decimal literal: its digits with the point removed, over 10^(digits after the point)
RECURSIVE DigitsToNat(_)
DigitsToNat(ds) ==
    IF ds = <<>> THEN 0 ELSE 10 * DigitsToNat(SubSeq(ds, 1, Len(ds) - 1)) + DigitValue(ds[Len(ds)])

RECURSIVE Pow10(_)
Pow10(k) == IF k = 0 THEN 1 ELSE 10 * Pow10(k - 1)

\* a BigNumber of more digits than a ratio of two integers holds: the
\* digits ds (no leading zero), the last sc of them after the point
Wide(neg, ds, sc) == [t |-> "dec", neg |-> neg, ds |-> ds, sc |-> sc]

\* the decimal with digits ds, the last sc of them after the point, in its
\* one representation: a ratio of integers when its digits fit
RECURSIVE Decimal(_, _, _)
Decimal(neg, ds, sc) ==
    IF ds # <<>> /\ Head(ds) = "0" THEN Decimal(neg, Tail(ds), sc)
    ELSE IF sc > 0 /\ ds # <<>> /\ ds[Len(ds)] = "0"
    THEN Decimal(neg, SubSeq(ds, 1, Len(ds) - 1), sc - 1)
    ELSE IF Len(ds) <= 9 /\ sc <= 9
    THEN Num((IF neg THEN -1 ELSE 1) * DigitsToNat(ds), Pow10(sc))
    ELSE Wide(neg, ds, sc)

\* the digits of ds times k plus carry
RECURSIVE MulCarry(_, _, _)
MulCarry(ds, k, carry) ==
    IF ds = <<>> THEN (IF carry = 0 THEN <<>> ELSE NatToString(carry))
    ELSE Append(MulCarry(SubSeq(ds, 1, Len(ds) - 1), k,
                         (DigitValue(ds[Len(ds)]) * k + carry) \div 10),
                NatToString((DigitValue(ds[Len(ds)]) * k + carry) % 10)[1])

\* a decimal times an integer
Times(w, n) == Decimal(w.neg # (n < 0), MulCarry(w.ds, Abs(n), 0), w.sc)

LiteralValue(ip, fp) == Decimal(FALSE, ip \o fp, Len(fp))

\* the tokenizer: blanks are skipped; a literal is digits with an optional
\* fraction; a symbol starts with a letter or _ and goes on with letters,
\* digits and _; a character that starts no token is a syntax error
RECURSIVE Tokenize(_, _, _)
Tokenize(s, p, out) ==
    IF p > Len(s) THEN [st |-> "ok", toks |-> out]
    ELSE IF s[p] \in WhiteSpace THEN Tokenize(s, p + 1, out)
    ELSE IF s[p] \in Digit
    THEN LET e1 == RunEnd(s, p, Digit)
             frac == e1 + 2 <= Len(s) /\ s[e1 + 1] = "." /\ s[e1 + 2] \in Digit
             e2 == IF frac THEN RunEnd(s, e1 + 2, Digit) ELSE e1
             fp == IF frac THEN SubSeq(s, e1 + 2, e2) ELSE <<>>
         IN IF e2 + 1 <= Len(s) /\ s[e2 + 1] \in {"e", "E", "."}
            THEN [st |-> "unmodelled", toks |-> out]
            ELSE Tokenize(s, e2 + 1,
                          Append(out, [k |-> "num", v |-> LiteralValue(SubSeq(s, p, e1), fp)]))
    ELSE IF s[p] \in AsciiLetter \cup {"_"}
    THEN LET e == RunEnd(s, p, AsciiLetter \cup Digit \cup {"_"})
         IN Tokenize(s, e + 1, Append(out, [k |-> "sym", v |-> SubSeq(s, p, e)]))
    ELSE IF s[p] = "=" /\ p + 1 <= Len(s) /\ s[p + 1] = "="
    THEN [st |-> "unmodelled", toks |-> out]
    ELSE IF s[p] \in ModelledDelimiter
    THEN Tokenize(s, p + 1, Append(out, [k |-> "delim", v |-> <<s[p]>>]))
    ELSE IF s[p] \in OtherDelimiter
    THEN [st |-> "unmodelled", toks |-> out]
    ELSE [st |-> "throw", toks |-> out]

\* the token at position p; the end of the input is the empty delimiter
TokenAt(toks, p) == IF p <= Len(toks) THEN toks[p] ELSE [k |-> "end", v |-> <<>>]

IsDelim(toks, p, c) == TokenAt(toks, p) = [k |-> "delim", v |-> <<c>>]

\* the words the parser reads as something other than a symbol
KeywordSymbol ==
    {<<"n", "u", "l", "l">>, <<"u", "n", "d", "e", "f", "i", "n", "e", "d">>,
     <<"N", "a", "N">>, <<"I", "n", "f", "i", "n", "i", "t", "y">>,
     <<"m", "o", "d">>, <<"t", "o">>, <<"i", "n">>, <<"a", "n", "d">>, <<"o", "r">>,
     <<"x", "o", "r">>, <<"n", "o", "t">>}

\* the constants the engine instance was created with
EngineConstant == {<<"p", "i">>, <<"e">>}

Failed(st, p) == [st |-> st, node |-> Null, p |-> p]

Parsed(node, p) == [st |-> "ok", node |-> node, p |-> p]

RECURSIVE parseAssignment(_, _)
RECURSIVE parseAssignmentRest(_, _)
RECURSIVE parseAddSubtract(_, _)
RECURSIVE addSubtractLoop(_, _, _)
RECURSIVE addSubtractNext(_, _, _, _)
RECURSIVE parseMultiplyDivide(_, _)
RECURSIVE multiplyDivideLoop(_, _, _)
RECURSIVE multiplyDivideNext(_, _, _, _)
RECURSIVE parseUnary(_, _)
RECURSIVE parsePrimary(_, _)

\* after the expression r inside parentheses: the closing parenthesis
parseParenthesesEnd(toks, r) ==
    IF r.st # "ok" THEN r
    ELSE IF ~IsDelim(toks, r.p, ")") THEN Failed("throw", r.p)
    ELSE IF IsDelim(toks, r.p + 1, "(") THEN Failed("unmodelled", r.p)
    ELSE Parsed([k |-> "paren", e |-> r.node], r.p + 1)

\* a literal, true/false, a symbol, or a parenthesised expression
parsePrimary(toks, p) ==
    LET tk == TokenAt(toks, p)
    IN IF tk.k = "num" THEN Parsed([k |-> "const", v |-> tk.v], p + 1)
       ELSE IF tk.k = "sym"
       THEN IF tk.v = <<"t", "r", "u", "e">> THEN Parsed([k |-> "const", v |-> Bool(TRUE)], p + 1)
            ELSE IF tk.v = <<"f", "a", "l", "s", "e">>
            THEN Parsed([k |-> "const", v |-> Bool(FALSE)], p + 1)
            ELSE IF tk.v \in KeywordSymbol \/ IsDelim(toks, p + 1, "(")
            THEN Failed("unmodelled", p)
            ELSE Parsed([k |-> "sym", name |-> tk.v], p + 1)
       ELSE IF IsDelim(toks, p, "(") THEN parseParenthesesEnd(toks, parseAssignment(toks, p + 1))
       ELSE Failed("throw", p)

\* the operand r of a unary minus, negated
parseUnaryEnd(r) == IF r.st # "ok" THEN r ELSE Parsed([k |-> "neg", e |-> r.node], r.p)

\* unary minus; unary plus is not among the functions the instance was created with
parseUnary(toks, p) ==
    IF IsDelim(toks, p, "-") THEN parseUnaryEnd(parseUnary(toks, p + 1))
    ELSE IF IsDelim(toks, p, "+") THEN Failed("unmodelled", p)
    ELSE parsePrimary(toks, p)

multiplyDivideNext(toks, node, op, r) ==
    IF r.st # "ok" THEN r
    ELSE multiplyDivideLoop(toks, [k |-> "bin", op |-> op, l |-> node, r |-> r.node], r.p)

multiplyDivideLoop(toks, node, p) ==
    IF IsDelim(toks, p, "*") \/ IsDelim(toks, p, "/")
    THEN multiplyDivideNext(toks, node, toks[p].v[1], parseUnary(toks, p + 1))
    ELSE IF TokenAt(toks, p).k \in {"num", "sym"} \/ IsDelim(toks, p, "(")
    THEN Failed("unmodelled", p)
    ELSE Parsed(node, p)

multiplyDivideFirst(toks, r) ==
    IF r.st # "ok" THEN r ELSE multiplyDivideLoop(toks, r.node, r.p)

parseMultiplyDivide(toks, p) == multiplyDivideFirst(toks, parseUnary(toks, p))

addSubtractNext(toks, node, op, r) ==
    IF r.st # "ok" THEN r
    ELSE addSubtractLoop(toks, [k |-> "bin", op |-> op, l |-> node, r |-> r.node], r.p)

addSubtractLoop(toks, node, p) ==
    IF IsDelim(toks, p, "+") \/ IsDelim(toks, p, "-")
    THEN addSubtractNext(toks, node, toks[p].v[1], parseMultiplyDivide(toks, p + 1))
    ELSE Parsed(node, p)

addSubtractFirst(toks, r) ==
    IF r.st # "ok" THEN r ELSE addSubtractLoop(toks, r.node, r.p)

parseAddSubtract(toks, p) == addSubtractFirst(toks, parseMultiplyDivide(toks, p))

\* the right-hand side v of an assignment to name
parseAssignmentValue(name, v) ==
    IF v.st # "ok" THEN v ELSE Parsed([k |-> "assign", name |-> name, e |-> v.node], v.p)

\* after the expression r: an = sign makes it the left-hand side, which must be a symbol
parseAssignmentRest(toks, r) ==
    IF r.st # "ok" THEN r
    ELSE IF IsDelim(toks, r.p, "=")
    THEN IF r.node.k # "sym" THEN Failed("throw", r.p)
         ELSE parseAssignmentValue(r.node.name, parseAssignment(toks, r.p + 1))
    ELSE r

\* name = expr, right associative
parseAssignment(toks, p) == parseAssignmentRest(toks, parseAddSubtract(toks, p))

\* the whole input must be one expression
parseEnd(toks, r) ==
    IF r.st # "ok" THEN r
    ELSE IF r.p <= Len(toks) THEN Failed("throw", r.p)
    ELSE r

parseTokens(t) ==
    IF t.st # "ok" THEN Failed(t.st, 0)
    ELSE IF t.toks = <<>> THEN Parsed([k |-> "const", v |-> Null], 1)
    ELSE parseEnd(t.toks, parseAssignment(t.toks, 1))

\* math.parse
parse(expr) == parseTokens(Tokenize(expr, 1, <<>>))

\* a boolean operand of an arithmetic function is converted to 0 or 1
ToNum(v) == IF v.t = "bool" THEN Num(IF v.b THEN 1 ELSE 0, 1) ELSE v

\* the arithmetic the model covers: any of + - * / on two ratios, and a
\* decimal of many digits times an integer
Computable(op, a, b) ==
    \/ a.t = "num" /\ b.t = "num" /\ (op = "/" => b.n # 0)
    \/ op = "*" /\ a.t = "dec" /\ b.t = "num" /\ b.d = 1
    \/ op = "*" /\ a.t = "num" /\ a.d = 1 /\ b.t = "dec"

Negated(v) == IF v.t = "dec" THEN Wide(~v.neg, v.ds, v.sc) ELSE Num(-v.n, v.d)

Arith(op, a, b) ==
    IF a.t = "dec" THEN Times(a, b.n)
    ELSE IF b.t = "dec" THEN Times(b, a.n)
    ELSE
    CASE op = "+" -> Num(a.n * b.d + b.n * a.d, a.d * b.d)
      [] op = "-" -> Num(a.n * b.d - b.n * a.d, a.d * b.d)
      [] op = "*" -> Num(a.n * b.n, a.d * b.d)
      [] op = "/" -> Num(a.n * b.d, a.d * b.n)

\* the compiled expression run against the scope: operands left to right, an
\* assignment writes the scope at once, an unbound symbol throws and leaves
\* the writes made so far in place
RECURSIVE Eval(_, _)
Eval(node, sc) ==
    CASE node.k = "const" -> [st |-> "ok", v |-> node.v, scope |-> sc]
      [] node.k = "sym" ->
            IF node.name \in DOMAIN sc THEN [st |-> "ok", v |-> sc[node.name], scope |-> sc]
            ELSE IF node.name \in EngineConstant THEN [st |-> "unmodelled", v |-> Null, scope |-> sc]
            ELSE [st |-> "throw", v |-> Null, scope |-> sc]
      [] node.k = "paren" -> Eval(node.e, sc)
      [] node.k = "neg" ->
            LET r == Eval(node.e, sc)
            IN IF r.st # "ok" THEN r
               ELSE IF r.v.t \notin {"num", "dec", "bool"} THEN [r EXCEPT !.st = "unmodelled"]
               ELSE [r EXCEPT !.v = Negated(ToNum(r.v))]
      [] node.k = "assign" ->
            LET r == Eval(node.e, sc)
            IN IF r.st # "ok" THEN r
               ELSE [r EXCEPT !.scope = (node.name :> r.v) @@ r.scope]
      [] node.k = "bin" ->
            LET l == Eval(node.l, sc)
                r == Eval(node.r, l.scope)
            IN IF l.st # "ok" THEN l
               ELSE IF r.st # "ok" THEN r
               ELSE IF l.v.t \notin {"num", "dec", "bool"} \/ r.v.t \notin {"num", "dec", "bool"}
               THEN [r EXCEPT !.st = "unmodelled"]
               ELSE IF ~Computable(node.op, ToNum(l.v), ToNum(r.v))
               THEN [r EXCEPT !.st = "unmodelled"]
               ELSE [r EXCEPT !.v = Arith(node.op, ToNum(l.v), ToNum(r.v))]

evaluateParsed(t, sc) ==
    IF t.st # "ok" THEN [st |-> t.st, v |-> Null, scope |-> sc] ELSE Eval(t.node, sc)

\* math.evaluate(expr, scope): a syntax error throws before anything runs
evaluate(expr, sc) == evaluateParsed(parse(expr), sc)

-----------------------------------------------------------------------------
(* math.format(value, AUTO_FMT)                                            *)

MAX_FIXED_EXP == 20

AUTO_FMT == [lowerExp |-> -MAX_FIXED_EXP, upperExp |-> MAX_FIXED_EXP, precision |-> 12]

\* k digits of the fraction rem/d (0 <= rem < d), by long division, and the
\* remainder left after them
RECURSIVE FracDigits(_, _, _, _)
FracDigits(rem, d, k, out) ==
    IF k = 0 THEN [digits |-> out, rem |-> rem]
    ELSE FracDigits((rem * 10) % d, d, k - 1, out \o NatToString((rem * 10) \div d))

\* the number of zeros between the point and the first non-zero digit of a/d, 0 < a < d
RECURSIVE LeadingZeros(_, _)
LeadingZeros(a, d) == IF a * 10 >= d THEN 0 ELSE 1 + LeadingZeros(a * 10, d)

\* the digits all, the last f of them the fraction, as integer digits ip and
\* fraction digits fp with the trailing zeros dropped
SplitDigits(all, f) ==
    [ip |-> SubSeq(all, 1, Len(all) - f),
     fp |-> StripTrailingZeros(SubSeq(all, Len(all) - f + 1, Len(all)))]

\* the integer digits ipd and f fraction digits fd of a value over d, rounded half up
RoundFraction(ipd, d, fd, f) ==
    SplitDigits(IF 2 * fd.rem >= d THEN Increment(ipd \o fd.digits) ELSE ipd \o fd.digits, f)

\* an integer of more digits than the precision, rounded half up
RoundInteger(ipd, precision) ==
    [ip |-> (IF DigitValue(ipd[precision + 1]) >= 5 THEN Increment(SubSeq(ipd, 1, precision))
             ELSE SubSeq(ipd, 1, precision)) \o [k \in 1..(Len(ipd) - precision) |-> "0"],
     fp |-> <<>>]

\* the fraction digits that `precision` significant digits reach to
FractionLength(ipd, rem, d, precision) ==
    IF ipd # <<"0">> THEN precision - Len(ipd) ELSE LeadingZeros(rem, d) + precision

RoundedParts(ipd, rem, d, precision) ==
    IF Len(ipd) > precision THEN RoundInteger(ipd, precision)
    ELSE RoundFraction(ipd, d,
             FracDigits(rem, d, FractionLength(ipd, rem, d, precision), <<>>),
             FractionLength(ipd, rem, d, precision))

\* a/d rounded half up to `precision` significant digits, as its integer
\* digits ip ("0" when it has none) and fraction digits fp, trailing zeros dropped
Rounded(a, d, precision) == RoundedParts(NatToString(a \div d), a % d, d, precision)

\* the decimal exponent of a rounded non-zero value
ExponentOf(r) ==
    IF r.ip # <<"0">> THEN Len(r.ip) - 1
    ELSE -(Len(r.fp) - Len(StripLeadingZeros(r.fp)) + 1)

\* significant digits as d.ddd
Mantissa(sig) == <<Head(sig)>> \o (IF Len(sig) > 1 THEN <<".">> \o Tail(sig) ELSE <<>>)

\* notation 'auto': fixed notation while lowerExp <= exponent < upperExp,
\* exponential notation outside; trailing zeros of the fraction are dropped
formatRounded(sign, r, e, opts) ==
    IF e >= opts.lowerExp /\ e < opts.upperExp
    THEN sign \o r.ip \o (IF r.fp = <<>> THEN <<>> ELSE <<".">> \o r.fp)
    ELSE sign \o Mantissa(StripTrailingZeros(StripLeadingZeros(r.ip \o r.fp)))
              \o <<"e">> \o (IF e < 0 THEN <<"-">> ELSE <<"+">>) \o NatToString(Abs(e))

formatSigned(sign, r, opts) == formatRounded(sign, r, ExponentOf(r), opts)

\* the digits ds, the last sc of them after the point, as integer digits ip
\* ("0" when there are none) and fraction digits fp, trailing zeros dropped
SplitDecimal(ds, sc) ==
    [ip |-> IF Len(ds) > sc THEN SubSeq(ds, 1, Len(ds) - sc) ELSE <<"0">>,
     fp |-> StripTrailingZeros(IF Len(ds) >= sc THEN SubSeq(ds, Len(ds) - sc + 1, Len(ds))
                               ELSE [k \in 1..(sc - Len(ds)) |-> "0"] \o ds)]

\* the rounded leading digits kept, `dropped` digits having been cut after them
RoundedKept(kept, dropped, sc) ==
    IF dropped <= sc THEN SplitDecimal(kept, sc - dropped)
    ELSE SplitDecimal(kept \o [k \in 1..(dropped - sc) |-> "0"], 0)

\* a decimal of many digits rounded half up to `precision` significant digits
RoundedDecimal(ds, sc, precision) ==
    IF Len(ds) <= precision THEN SplitDecimal(ds, sc)
    ELSE RoundedKept(IF DigitValue(ds[precision + 1]) >= 5
                     THEN Increment(SubSeq(ds, 1, precision)) ELSE SubSeq(ds, 1, precision),
                     Len(ds) - precision, sc)

format(v, opts) ==
    IF v.t = "dec"
    THEN formatSigned(IF v.neg THEN <<"-">> ELSE <<>>,
                      RoundedDecimal(v.ds, v.sc, opts.precision), opts)
    ELSE IF v.n = 0 THEN <<"0">>
    ELSE formatSigned(IF v.n < 0 THEN <<"-">> ELSE <<>>, Rounded(Abs(v.n), v.d, opts.precision), opts)

\* math.typeOf
typeOf(v) == IF v.t \in {"num", "dec"} THEN "BigNumber" ELSE IF v.t = "bool" THEN "boolean" ELSE v.t

\* a display for every value that is not null
resultToDisplayAnyType(val) ==
    IF val = Null THEN Null
    ELSE IF typeOf(val) \in {"BigNumber", "number"} THEN Str(format(val, AUTO_FMT))
    ELSE Str(IF val.b THEN <<"t", "r", "u", "e">> ELSE <<"f", "a", "l", "s", "e">>)

resultToDisplay(val) ==
    IF val = Null THEN Null
    ELSE IF typeOf(val) \in {"BigNumber", "number"} THEN Str(format(val, AUTO_FMT))
    ELSE Null

\* math.number(val): the double nearest to the value; the model keeps the
\* exact value that double approximates
resultToNumber(val) == val

-----------------------------------------------------------------------------
(* The line classifier                                                     *)

BINARY_OPERATORS == {"+", "-", "*", "/"}

SeparatorChar == {"-", "=", "_", ".", "*", "U+00B7", "~"}

\* /^[-=_.*·~]+$/.test(line)
isSeparator(line) == line # <<>> /\ \A p \in 1..Len(line) : line[p] \in SeparatorChar

\* a test that looks in the scope alone
isKnownVariableScopeOnly(sc, m, line) == line \in DOMAIN sc

\* Object.prototype.hasOwnProperty.call(scope, line) || mapping.cnToAlias.has(line)
isKnownVariable(sc, m, line) == line \in DOMAIN sc \/ line \in DOMAIN m.cnToAlias

MathWord ==
    {<<"p", "i">>, <<"e">>, <<"a", "n", "s">>, <<"t", "r", "u", "e">>,
     <<"f", "a", "l", "s", "e">>, <<"i", "n", "f", "i", "n", "i", "t", "y">>}

\* word w stands at position p of line between two \b, letter case ignored
WordAt(line, p, w) ==
    /\ p + Len(w) - 1 <= Len(line)
    /\ \A j \in 1..Len(w) : toLowerCase(line[p + j - 1]) = w[j]
    /\ p = 1 \/ line[p - 1] \notin WordChar
    /\ p + Len(w) > Len(line) \/ line[p + Len(w)] \notin WordChar

\* /\b(pi|e|ans|true|false|Infinity)\b/i.test(line)
hasMathWord(line) == \E p \in 1..Len(line) : \E w \in MathWord : WordAt(line, p, w)

\* /[0-9=()^]/.test(line)
hasMathChar(line) == \E p \in 1..Len(line) : line[p] \in Digit \cup {"=", "(", ")", "^"}

\* BINARY_OPERATORS.some(op => line.includes(op))
hasOperator(line) == \E p \in 1..Len(line) : line[p] \in BINARY_OPERATORS

isProse(sc, m, line) ==
    /\ ~isKnownVariable(sc, m, line)
    /\ ~hasMathChar(line)
    /\ ~hasOperator(line)
    /\ ~hasMathWord(line)

\* a known-variable test made before the separator test
ClassifyKnownVariableFirst(sc, m, line) ==
    IF Len(line) = 0 THEN "empty"
    ELSE IF Head(line) = "#" THEN "comment"
    ELSE IF isKnownVariable(sc, m, line) THEN "evaluate"
    ELSE IF isSeparator(line) THEN "separator"
    ELSE IF isProse(sc, m, line) THEN "prose"
    ELSE "evaluate"

\* the four tests of the loop body in the order the code makes them
Classify(sc, m, line) ==
    IF Len(line) = 0 THEN "empty"
    ELSE IF Head(line) = "#" THEN "comment"
    ELSE IF isSeparator(line) THEN "separator"
    ELSE IF isProse(sc, m, line) THEN "prose"
    ELSE "evaluate"

-----------------------------------------------------------------------------
(* calculate                                                               *)

ANS == <<"a", "n", "s">>

\* { display: null, numeric: 0, error: false }
BlankResult == [display |-> Null, numeric |-> Num(0, 1), error |-> FALSE]

\* { display: null, numeric: 0, error: true }
ErrorResult == [display |-> Null, numeric |-> Num(0, 1), error |-> TRUE]

\* { display, numeric: num, error: false }
DisplayResult(display, num) == [display |-> display, numeric |-> num, error |-> FALSE]

\* const mapping: VarMapping = { cnToAlias: new Map(), counter: 0 }
NewMapping == [cnToAlias |-> <<>>, counter |-> 0]

\* a scope that outlives the call
StaleScope == scope

\* const scope: Record<string, unknown> = {}
NewScope == <<>>

\* a skipped line that pushes nothing
SkipLineNoPush(ctx) == ctx

\* a skipped line that breaks the chain
SkipLineClearsAnswer(ctx) ==
    [ctx EXCEPT !.results = Append(@, [display |-> Null, numeric |-> Num(0, 1), error |-> FALSE]),
                !.previousAnswer = Null]

\* results.push(blank); continue
SkipLine(ctx) == [ctx EXCEPT !.results = Append(@, BlankResult)]

\* chaining that leaves a leading minus to be a sign
chainPrefixNoMinus(prev, line) ==
    IF prev # Null /\ line[1] \in {"+", "*", "/"} THEN format(prev, AUTO_FMT) \o line ELSE line

\* if (previousAnswer !== null && BINARY_OPERATORS.includes(line[0])) line = format(previousAnswer) + line
chainPrefix(prev, line) ==
    IF prev # Null /\ line[1] \in BINARY_OPERATORS THEN format(prev, AUTO_FMT) \o line ELSE line

\* ans bound only while the scope has no ans yet
bindAnsOnce(sc, prev) ==
    IF prev # Null /\ <<"a", "n", "s">> \notin DOMAIN sc THEN (<<"a", "n", "s">> :> prev) @@ sc ELSE sc

\* ans bound whatever the previous answer is
bindAnsAlways(sc, prev) == (<<"a", "n", "s">> :> prev) @@ sc

\* if (previousAnswer !== null) scope['ans'] = previousAnswer
bindAns(sc, prev) == IF prev # Null THEN (ANS :> prev) @@ sc ELSE sc

\* a catch block that also forgets the previous answer
OnThrowClearsAnswer(ctx, sc, m) ==
    [ctx EXCEPT !.results = Append(@, [display |-> Null, numeric |-> Num(0, 1), error |-> TRUE]),
                !.scope = sc, !.mapping = m, !.previousAnswer = Null]

\* the catch block: the line is an error; what the engine and the alias
\* substitution wrote before the throw stays written
OnThrow(ctx, sc, m) ==
    [ctx EXCEPT !.results = Append(@, ErrorResult), !.scope = sc, !.mapping = m]

\* a try block whose engine call works on a copy of the scope
OnResultDropsScope(ctx, result, sc, m) ==
    IF resultToDisplay(result) # Null
    THEN [results |-> Append(ctx.results,
                             DisplayResult(resultToDisplay(result), resultToNumber(result))),
          scope |-> ctx.scope, previousAnswer |-> result, mapping |-> m]
    ELSE [results |-> Append(ctx.results, BlankResult),
          scope |-> ctx.scope, previousAnswer |-> ctx.previousAnswer, mapping |-> m]

PushDisplay(ctx, display, result, sc, m) ==
    IF display # Null
    THEN [results |-> Append(ctx.results, DisplayResult(display, resultToNumber(result))),
          scope |-> sc, previousAnswer |-> result, mapping |-> m]
    ELSE [results |-> Append(ctx.results, BlankResult),
          scope |-> sc, previousAnswer |-> ctx.previousAnswer, mapping |-> m]

\* the rest of the try block after math.evaluate returned
OnResult(ctx, result, sc, m) == PushDisplay(ctx, resultToDisplay(result), result, sc, m)

\* the string handed to math.evaluate and the alias table after building it
EngineInput(ctx, line) ==
    replaceChineseVars(preprocessPercent(chainPrefix(ctx.previousAnswer, line)), ctx.mapping)

\* the engine returned or threw: the context after the line, and for the
\* properties below the engine's input, the scope it was given, its outcome
\* and the value it returned
AfterEngine(ctx, in, sc, ev) ==
    [ctx |-> IF ev.st = "ok" THEN OnResult(ctx, ev.v, ev.scope, in.mapping)
             ELSE OnThrow(ctx, ev.scope, in.mapping),
     kind |-> "eval", expr |-> in.line, engineScope |-> sc, st |-> ev.st, value |-> ev.v]

CallEngine(ctx, in, sc) == AfterEngine(ctx, in, sc, evaluate(in.line, sc))

\* the try/catch of the loop body
EvaluateLine(ctx, line) ==
    CallEngine(ctx, EngineInput(ctx, line), bindAns(ctx.scope, ctx.previousAnswer))

\* one iteration of the for loop on the raw line
ProcessLine(ctx, raw) ==
    LET line == Trim(raw)
    IN IF Classify(ctx.scope, ctx.mapping, line) = "evaluate"
       THEN EvaluateLine(ctx, line)
       ELSE [ctx |-> SkipLine(ctx), kind |-> "skip", expr |-> <<>>, engineScope |-> <<>>,
             st |-> "none", value |-> Null]

NoAssigned == [names |-> {}, val |-> <<>>]

\* what an iteration did, for the properties below: its index, the trimmed
\* line, the context and the assigned variables before it, and what
\* ProcessLine reports of the engine call
NoStep ==
    [kind |-> "none", index |-> 0, line |-> <<>>,
     before |-> [results |-> <<>>, scope |-> <<>>, previousAnswer |-> Null,
                 mapping |-> [cnToAlias |-> <<>>, counter |-> 0]],
     assignedBefore |-> NoAssigned,
     expr |-> <<>>, engineScope |-> <<>>, st |-> "none", value |-> Null]

StepRecord(ctx, idx, raw, asg, done) ==
    [kind |-> done.kind, index |-> idx, line |-> Trim(raw), before |-> ctx,
     assignedBefore |-> asg,
     expr |-> done.expr, engineScope |-> done.engineScope, st |-> done.st, value |-> done.value]

\* the names an expression assigns: the symbols it has directly before an = sign
AssignedIn(toks) ==
    {toks[p].v : p \in {q \in 1..(Len(toks) - 1) :
                          toks[q].k = "sym" /\ toks[q + 1] = [k |-> "delim", v |-> <<"=">>]}}

AssignedNames(expr) == AssignedIn(Tokenize(expr, 1, <<>>).toks)

\* the name a line of the form `name = ...` assigns the line's value to
TopLevelIn(toks) ==
    IF Len(toks) >= 2 /\ toks[1].k = "sym" /\ toks[2] = [k |-> "delim", v |-> <<"=">>]
    THEN {toks[1].v} ELSE {}

TopLevelAssigned(expr) == TopLevelIn(Tokenize(expr, 1, <<>>).toks)

\* names: every name some line's expression assigned; val: for the names whose
\* latest assigning line evaluated without a throw, the value that line gave
\* them (the line's own value for `name = ...`, else the value in scope after it)
AssignedWith(asg, rec, sc, an, top) ==
    [names |-> asg.names \cup an,
     val |-> [k \in (IF rec.st = "ok" THEN DOMAIN asg.val \cup an ELSE DOMAIN asg.val \ an) |->
                IF k \in top THEN rec.value
                ELSE IF k \in an THEN (IF k \in DOMAIN sc THEN sc[k] ELSE Null)
                ELSE asg.val[k]]]

AssignedAfter(asg, rec, sc) ==
    IF rec.kind = "eval"
    THEN AssignedWith(asg, rec, sc, AssignedNames(rec.expr), TopLevelAssigned(rec.expr))
    ELSE asg

Context == [results |-> results, scope |-> scope, previousAnswer |-> previousAnswer,
            mapping |-> mapping]

\* set: a pass is remembered; later: the calculate calls since it, counted up to 2
NoMemo == [set |-> FALSE, text |-> <<>>, results |-> <<>>, later |-> 0]

-----------------------------------------------------------------------------
(* The documents of the model                                              *)

\* the longest document, in lines
MaxLines == 3

\* the longest document of the passes that are compared with an earlier pass
MaxPassLines == 2

LineSet ==
    { <<" ">>,
      <<"#", "1">>,
      <<"-", "-">>,
      <<"h", "i">>,
      <<"1", "0", "0">>,
      <<"*", " ", "8", "0", "%">>,
      <<"x", " ", "=", " ", "2">>,
      <<" ", "x">>,
      <<"U+6C34", " ", "=", " ", "3">>,
      <<"U+623F", " ", "=", " ", "U+6C34", " ", "-", " ", "1">>,
      <<"-", " ", "U+623F">>,
      <<"a", "n", "s", " ", "=", " ", "t", "r", "u", "e">>,
      <<"a", "n", "s", " ", "=", " ", "5">>,
      <<"(", "x", " ", "=", " ", "1", ")", " ", "+", " ", "y">> }

\* lines that assign variables and lines that are a bare variable name
VarLineSet ==
    { <<"x", " ", "=", " ", "2">>,
      <<"x", " ", "=", " ", "t", "r", "u", "e">>,
      <<"x">>,
      <<"U+6C34", " ", "=", " ", "3">>,
      <<" ", "U+6C34", " ">>,
      <<"_", " ", "=", " ", "7">>,
      <<"_">>,
      <<"a", "n", "s", " ", "=", " ", "5">>,
      <<"a", "n", "s">>,
      <<"1", "0", "0">> }

PassLineSet ==
    { <<"x", " ", "=", " ", "2">>,
      <<"x">>,
      <<"U+623F", " ", "=", " ", "3">>,
      <<"U+6C34", " ", "=", " ", "U+623F">>,
      <<"-", " ", "1">> }

\* the lines joined by newlines
RECURSIVE Join(_)
Join(doc) == IF Len(doc) = 1 THEN doc[1] ELSE doc[1] \o <<NL>> \o Join(Tail(doc))

Texts(ls, n) == {Join(doc) : doc \in UNION {[1..k -> ls] : k \in 1..n}}

-----------------------------------------------------------------------------
(* The state machine                                                       *)

\* no calculate call is running
CalculatorIdle ==
    /\ pc = "idle"
    /\ text = <<>>
    /\ lines = <<>>
    /\ i = 0
    /\ results = <<>>
    /\ scope = <<>>
    /\ previousAnswer = Null
    /\ mapping = [cnToAlias |-> <<>>, counter |-> 0]
    /\ last = NoStep
    /\ assigned = NoAssigned
    /\ memo = NoMemo

\* nothing is being formatted
FormatterIdle == str = <<>> /\ shown = <<>>

\* the page is not open
EditorClosed ==
    /\ inputArea = <<>>
    /\ lastResult = Null
    /\ rafId = 0
    /\ frames = {}
    /\ outputArea = <<>>
    /\ exported = Null
    /\ state = Null
    /\ localStorage = Null

\* the calculator alone, before its first call
Init == CalculatorIdle /\ FormatterIdle /\ EditorClosed

\* calculate(t) is called: lines 136-140, up to the loop
Calculate(t) ==
    /\ pc \in {"idle", "done"}
    /\ pc' = "loop"
    /\ text' = t
    /\ lines' = Split(t)
    /\ i' = 0
    /\ results' = <<>>
    /\ scope' = NewScope
    /\ previousAnswer' = Null
    /\ mapping' = NewMapping
    /\ last' = NoStep
    /\ assigned' = NoAssigned
    /\ memo' = IF memo.set /\ memo.later < 2
               THEN [memo EXCEPT !.later = @ + 1] ELSE memo
    /\ UNCHANGED <<formatVars, editorVars, tabVars>>

\* the loop body has run on lines[i]: its writes, and the history of them
Advance(done, rec) ==
    /\ results' = done.ctx.results
    /\ scope' = done.ctx.scope
    /\ previousAnswer' = done.ctx.previousAnswer
    /\ mapping' = done.ctx.mapping
    /\ last' = rec
    /\ assigned' = AssignedAfter(assigned, rec, done.ctx.scope)

Record(done) == Advance(done, StepRecord(Context, i, lines[i + 1], assigned, done))

\* one iteration of the for loop
Step ==
    /\ pc = "loop"
    /\ i < Len(lines)
    /\ Record(ProcessLine(Context, lines[i + 1]))
    /\ i' = i + 1
    /\ UNCHANGED <<pc, text, lines, memo>>
    /\ UNCHANGED <<formatVars, editorVars, tabVars>>

\* the loop ends: return { lines: results }
Return ==
    /\ pc = "loop"
    /\ i >= Len(lines)
    /\ pc' = "done"
    /\ UNCHANGED <<text, lines, i, results, scope, previousAnswer, mapping, last, assigned, memo>>
    /\ UNCHANGED <<formatVars, editorVars, tabVars>>

\* the same, the caller keeping the text and the results it got
ReturnAndKeep ==
    /\ pc = "loop"
    /\ i >= Len(lines)
    /\ pc' = "done"
    /\ memo' = [set |-> TRUE, text |-> text, results |-> results, later |-> 0]
    /\ UNCHANGED <<text, lines, i, results, scope, previousAnswer, mapping, last, assigned>>
    /\ UNCHANGED <<formatVars, editorVars, tabVars>>

\* one pass over any document of the model
Next ==
    \/ pc = "idle" /\ \E t \in Texts(LineSet, MaxLines) : Calculate(t)
    \/ Step
    \/ Return

Spec == Init /\ [][Next]_vars

\* one pass over a document of variable lines
NextVars ==
    \/ pc = "idle" /\ \E t \in Texts(VarLineSet, MaxLines) : Calculate(t)
    \/ Step
    \/ Return

SpecVars == Init /\ [][NextVars]_vars

\* passes over short documents, one earlier pass remembered
NextPasses ==
    \/ pc \in {"idle", "done"} /\ \E t \in Texts(PassLineSet, MaxPassLines) : Calculate(t)
    \/ Step
    \/ Return
    \/ ReturnAndKeep

SpecPasses == Init /\ [][NextPasses]_vars

\* every expression the model hands to the engine is inside the modelled grammar
EngineInputModelled == last.st # "unmodelled"

-----------------------------------------------------------------------------
(* Properties                                                              *)

\* the 1-based index in lines and results of the line the latest iteration processed
LastIndex == last.index + 1

DisplayOf(chars, v) == [display |-> Str(chars), numeric |-> v, error |-> FALSE]

Hundred == <<"1", "0", "0">>

\* a line that is skipped whatever came before it: empty, comment or separator
AlwaysSkipped(raw) ==
    LET line == Trim(raw) IN Len(line) = 0 \/ Head(line) = "#" \/ isSeparator(line)

CountOf(s, c) == Cardinality({p \in 1..Len(s) : s[p] = c})

\* C1: calculate returns exactly one LineResult per line of text.split('\n'), in
\* order: after k iterations the result list has length k, an iteration appends
\* one result and changes no earlier one, the finished pass has one result per
\* line (one more than the text has newlines), and result k is the result of
\* line k (a skipped line's is Blank, the line 100's is Display 100)
C1_OneResultPerLine ==
    /\ Len(results) = i
    /\ Len(lines) = (IF pc = "idle" THEN 0 ELSE CountOf(text, NL) + 1)
    /\ pc = "done" => Len(results) = Len(lines)
    /\ last.kind # "none" =>
          /\ LastIndex = i
          /\ SubSeq(results, 1, i - 1) = last.before.results
    /\ \A k \in 1..Len(results) :
          /\ AlwaysSkipped(lines[k]) => results[k] = BlankResult
          /\ Trim(lines[k]) = Hundred => results[k] = DisplayOf(Hundred, Num(100, 1))

\* a finished three-line pass with a blank, a displayed and an erroring line
C1_Witness ==
    /\ pc = "done"
    /\ Len(lines) = 3
    /\ results[1] = BlankResult
    /\ results[2].display # Null
    /\ results[3].error

\* the line is skipped in the context ctx: empty, comment, separator or prose
IsSkipped(ctx, line) ==
    \/ Len(line) = 0
    \/ Head(line) = "#"
    \/ isSeparator(line)
    \/ isProse(ctx.scope, ctx.mapping, line)

\* C2: a skipped line (empty after trimming, starting with #, made only of
\* separator characters, or prose) produces a Blank result and leaves
\* previousAnswer and scope as they were before the line
C2_SkippedLineChangesNothing ==
    (last.kind # "none" /\ IsSkipped(last.before, Trim(lines[LastIndex]))) =>
        /\ results[LastIndex] = [display |-> Null, numeric |-> Num(0, 1), error |-> FALSE]
        /\ previousAnswer = last.before.previousAnswer
        /\ scope = last.before.scope

\* the separator line -- is skipped while a previous answer and a variable exist
C2_Witness ==
    /\ last.kind = "skip"
    /\ last.line = <<"-", "-">>
    /\ previousAnswer # Null
    /\ DOMAIN scope # {}

\* C3: when a previous answer R exists and the trimmed line starts with one of
\* + - * /, the engine is handed R's auto-notation string followed by the
\* percent-expanded, alias-substituted line; otherwise it is handed the
\* percent-expanded, alias-substituted line with nothing in front
C3_ChainingPrefix ==
    last.kind = "eval" =>
        LET R == last.before.previousAnswer
            line == Trim(lines[LastIndex])
            body == replaceChineseVars(preprocessPercent(line), last.before.mapping).line
        IN last.expr = (IF R # Null /\ Head(line) \in {"+", "-", "*", "/"}
                        THEN format(R, AUTO_FMT) ELSE <<>>) \o body

\* the line `* 80%` after 100: the engine is handed 100* (80/100), which is 80
C3_Witness ==
    /\ last.kind = "eval"
    /\ last.before.previousAnswer = Num(100, 1)
    /\ last.line = <<"*", " ", "8", "0", "%">>
    /\ last.expr = <<"1", "0", "0", "*", " ", "(", "8", "0", "/", "1", "0", "0", ")">>
    /\ results[LastIndex] = DisplayOf(<<"8", "0">>, Num(80, 1))

\* the indexes below k of the lines whose result is Display
DisplayedBefore(k) == {j \in 1..(k - 1) : results[j].display # Null}

Max(S) == CHOOSE x \in S : \A y \in S : y <= x

\* C4: at every engine call made while a previous answer exists (some earlier
\* line of the pass has a Display result), scope['ans'] is the value of the
\* latest earlier line whose result is Display, whatever skipped, non-numeric
\* or erroring lines and whatever assignments to ans came in between
C4_AnsIsLatestDisplay ==
    last.kind = "eval" =>
        /\ (last.before.previousAnswer # Null) <=> (DisplayedBefore(LastIndex) # {})
        /\ DisplayedBefore(LastIndex) # {} =>
              LET r == results[Max(DisplayedBefore(LastIndex))]
              IN /\ ANS \in DOMAIN last.engineScope
                 /\ last.engineScope[ANS] = r.numeric
                 /\ Str(format(last.engineScope[ANS], AUTO_FMT)) = r.display

\* an engine call at which the scope held another ans than the previous answer
C4_Witness ==
    /\ last.kind = "eval"
    /\ last.before.previousAnswer # Null
    /\ ANS \in DOMAIN last.before.scope
    /\ last.before.scope[ANS] # last.before.previousAnswer
    /\ last.engineScope[ANS] = last.before.previousAnswer

\* C5: when the engine throws on a line, the line's result is Error,
\* previousAnswer keeps the value it had before the line, and the pass goes
\* on with the next line: no pass ends before every line has a result, and
\* the line 100, which depends on nothing, is Display 100 wherever it stands
C5_ErrorIsLocal ==
    /\ last.st = "throw" =>
          /\ results[LastIndex] = [display |-> Null, numeric |-> Num(0, 1), error |-> TRUE]
          /\ previousAnswer = last.before.previousAnswer
          /\ i = LastIndex
          /\ pc = "loop" \/ i = Len(lines)
    /\ pc = "done" => i = Len(lines)
    /\ \A k \in 1..Len(results) :
          (k > 1 /\ results[k - 1].error /\ Trim(lines[k]) = Hundred)
              => results[k] = DisplayOf(Hundred, Num(100, 1))

\* 100, then a line that throws, then `* 80%`, which chains on the 100
C5_Witness ==
    /\ Len(results) = 3
    /\ results[1] = DisplayOf(Hundred, Num(100, 1))
    /\ results[2].error
    /\ results[3] = DisplayOf(<<"8", "0">>, Num(80, 1))

\* the non-ASCII identifiers of a line in the order they occur, repeats included
RECURSIVE NonAsciiIdentifiers(_, _)
NonAsciiIdentifiers(line, p) ==
    IF p > Len(line) THEN <<>>
    ELSE IF line[p] \in UnicodeL \cup {"_"}
    THEN LET e == RunEnd(line, p + 1, UnicodeL \cup UnicodeN \cup {"_"})
             id == SubSeq(line, p, e)
         IN (IF \E q \in p..e : line[q] \in NonAscii THEN <<id>> ELSE <<>>)
               \o NonAsciiIdentifiers(line, e + 1)
    ELSE NonAsciiIdentifiers(line, p + 1)

\* C6: within a pass the alias table is an injective function that only
\* grows: an identifier substituted for the first time gets _vN, N the number
\* of identifiers aliased before it, an identifier keeps its name on every
\* later line, and two identifiers never share a name
C6_AliasStability ==
    LET tbl == mapping.cnToAlias
        old == last.before.mapping.cnToAlias
        ids == NonAsciiIdentifiers(last.line, 1)
    IN /\ mapping.counter = Cardinality(DOMAIN tbl)
       /\ \A a, b \in DOMAIN tbl : tbl[a] = tbl[b] => a = b
       /\ \A a \in DOMAIN tbl : \E n \in 0..(mapping.counter - 1) :
             tbl[a] = <<"_", "v">> \o NatToString(n)
       /\ \A a \in DOMAIN old : a \in DOMAIN tbl /\ tbl[a] = old[a]
       /\ last.kind = "eval" =>
             /\ \A p \in 1..Len(ids) :
                   /\ ids[p] \in DOMAIN tbl
                   /\ ids[p] \notin DOMAIN old =>
                         tbl[ids[p]] = <<"_", "v">> \o NatToString(
                             Cardinality(DOMAIN old \cup
                                 {ids[q] : q \in {r \in 1..(p - 1) : ids[r] # ids[p]}}))
             /\ DOMAIN tbl = DOMAIN old \cup {ids[p] : p \in 1..Len(ids)}
             /\ \A p \in 1..Len(last.expr) : last.expr[p] \notin NonAscii
       /\ last.kind = "skip" => tbl = old

\* a line that allocates a second alias and reuses the first one
C6_Witness ==
    /\ last.kind = "eval"
    /\ last.before.mapping.cnToAlias = (<<"U+6C34">> :> <<"_", "v", "0">>)
    /\ mapping.cnToAlias = (<<"U+6C34">> :> <<"_", "v", "0">>) @@ (<<"U+623F">> :> <<"_", "v", "1">>)
    /\ last.expr = <<"_", "v", "1", " ", "=", " ", "_", "v", "0", " ", "-", " ", "1">>

\* C7 as claimed: a variable that a successfully evaluated line assigned is
\* bound to that value at every later engine call until a line assigns it again
C7_Original ==
    last.kind = "eval" =>
        \A k \in DOMAIN last.assignedBefore.val :
            /\ k \in DOMAIN last.engineScope
            /\ last.engineScope[k] = last.assignedBefore.val[k]

\* C7, amended: a variable other than ans that a successfully evaluated line
\* assigned is bound to that value at every later engine call until a line
\* assigns it again, a variable other than ans is bound at an engine call only
\* if an earlier line assigned it, and ans is bound to the previous answer
\* when there is one
C7_AssignmentsPersist ==
    last.kind = "eval" =>
        /\ \A k \in DOMAIN last.assignedBefore.val \ {ANS} :
              /\ k \in DOMAIN last.engineScope
              /\ last.engineScope[k] = last.assignedBefore.val[k]
        /\ \A k \in DOMAIN last.engineScope \ {ANS} : k \in last.assignedBefore.names
        /\ last.before.previousAnswer # Null =>
              last.engineScope[ANS] = last.before.previousAnswer
        /\ \A k \in DOMAIN scope \ {ANS} : k \in assigned.names

\* x = 2, an unrelated line, then the line x, which shows 2
C7_Witness ==
    /\ last.kind = "eval"
    /\ LastIndex = 3
    /\ Trim(lines[1]) = <<"x", " ", "=", " ", "2">>
    /\ last.line = <<"x">>
    /\ <<"x">> \in DOMAIN last.assignedBefore.val
    /\ last.assignedBefore.val[<<"x">>] = Num(2, 1)
    /\ results[3] = DisplayOf(<<"2">>, Num(2, 1))

\* the scope key and the current value of the variable a line names, in the
\* context before the line: an ASCII name is its own key, a non-ASCII name's
\* key is its alias; ans stands for the previous answer when there is one
NamedKey(ctx, line) ==
    IF line \in DOMAIN ctx.mapping.cnToAlias THEN ctx.mapping.cnToAlias[line] ELSE line

NamesNumericVariable(ctx, line) ==
    /\ NamedKey(ctx, line) \in DOMAIN ctx.scope
    /\ line \in DOMAIN ctx.scope \/ line \in DOMAIN ctx.mapping.cnToAlias
    /\ (IF NamedKey(ctx, line) = ANS /\ ctx.previousAnswer # Null
        THEN ctx.previousAnswer ELSE ctx.scope[NamedKey(ctx, line)]).t = "num"

CurrentValue(ctx, line) ==
    IF NamedKey(ctx, line) = ANS /\ ctx.previousAnswer # Null
    THEN ctx.previousAnswer ELSE ctx.scope[NamedKey(ctx, line)]

\* C8 as claimed: a line that is just the name of a variable holding a number
\* is evaluated, and its result is Display of the variable's current value
C8_Original ==
    (last.kind # "none" /\ NamesNumericVariable(last.before, Trim(lines[LastIndex]))) =>
        /\ last.kind = "eval"
        /\ results[LastIndex] =
              DisplayOf(format(CurrentValue(last.before, Trim(lines[LastIndex])), AUTO_FMT),
                        CurrentValue(last.before, Trim(lines[LastIndex])))

\* C8, amended: a line that is just the name of a variable holding a number,
\* the name not made of underscores alone, is evaluated, and its result is
\* Display of the variable's current value
C8_BareVariableShown ==
    (/\ last.kind # "none"
     /\ NamesNumericVariable(last.before, Trim(lines[LastIndex]))
     /\ \E p \in 1..Len(Trim(lines[LastIndex])) : Trim(lines[LastIndex])[p] # "_") =>
        /\ last.kind = "eval"
        /\ results[LastIndex] =
              DisplayOf(format(CurrentValue(last.before, Trim(lines[LastIndex])), AUTO_FMT),
                        CurrentValue(last.before, Trim(lines[LastIndex])))

\* the bare non-ASCII name of a variable that holds 3 shows 3
C8_Witness ==
    /\ last.kind = "eval"
    /\ last.line = <<"U+6C34">>
    /\ last.before.mapping.cnToAlias = (<<"U+6C34">> :> <<"_", "v", "0">>)
    /\ last.before.scope[<<"_", "v", "0">>] = Num(3, 1)
    /\ results[LastIndex] = DisplayOf(<<"3">>, Num(3, 1))

\* C9: when the engine returns a value that is neither a BigNumber nor a
\* number (or returns null), the line's result is Blank, not Error, and
\* previousAnswer is not updated
C9_NonNumericIsBlank ==
    (last.kind = "eval" /\ last.st = "ok" /\ last.value.t # "num") =>
        /\ results[LastIndex] = [display |-> Null, numeric |-> Num(0, 1), error |-> FALSE]
        /\ previousAnswer = last.before.previousAnswer

\* the engine returned true while a previous answer existed
C9_Witness ==
    /\ last.kind = "eval"
    /\ last.st = "ok"
    /\ last.value = Bool(TRUE)
    /\ last.before.previousAnswer # Null
    /\ previousAnswer = last.before.previousAnswer

\* C10: every call of calculate starts from a fresh context (empty scope, no
\* previous answer, empty alias table, counter 0, no results), and a pass over
\* a text returns the results an earlier pass over the same text returned,
\* whatever passes ran in between
C10_FreshContextPerPass ==
    /\ (pc = "loop" /\ i = 0) =>
          /\ scope = <<>>
          /\ previousAnswer = Null
          /\ mapping = [cnToAlias |-> <<>>, counter |-> 0]
          /\ results = <<>>
    /\ (pc = "done" /\ memo.set /\ memo.text = text) => results = memo.results

\* a text with a variable, passed again after another pass, with equal results
C10_Witness ==
    /\ pc = "done"
    /\ memo.set
    /\ memo.later = 2
    /\ memo.text = text
    /\ text = <<"x", " ", "=", " ", "2", NL, "x">>
    /\ results = <<DisplayOf(<<"2">>, Num(2, 1)), DisplayOf(<<"2">>, Num(2, 1))>>

-----------------------------------------------------------------------------
(* formatNumber: the presentation of a raw display string                  *)

\* the dot that \.? matched before the zeros, dropped with them
DropDot(kept) ==
    IF kept # <<>> /\ kept[Len(kept)] = "." THEN SubSeq(kept, 1, Len(kept) - 1) ELSE kept

\* a replace that takes one zero only
removeOneTrailingZero(m) ==
    IF m # <<>> /\ m[Len(m)] = "0" THEN DropDot(SubSeq(m, 1, Len(m) - 1)) ELSE m

\* mantissa.replace(/\.?0+$/, ''): the leftmost match is the whole run of
\* zeros at the end, with the dot before it when there is one
removeTrailingZeros(m) ==
    IF m # <<>> /\ m[Len(m)] = "0" THEN DropDot(StripTrailingZeros(m)) ELSE m

\* position k of s holds a \w character (there is none before the first or after the last)
IsWordAt(s, k) == k \in 1..Len(s) /\ s[k] \in WordChar

\* a \B that holds everywhere
AnyBoundary(s, k) == TRUE

\* \B between s[k] and s[k + 1]
NonWordBoundary(s, k) == IsWordAt(s, k) <=> IsWordAt(s, k + 1)

\* (?=(\d{3})+(?!\d)) after s[k]: some n groups of three digits follow, and no digit after them
DigitGroupsAhead(s, k) ==
    \E n \in 1..(Len(s) \div 3) :
        /\ k + 3 * n <= Len(s)
        /\ \A j \in 1..(3 * n) : s[k + j] \in Digit
        /\ k + 3 * n = Len(s) \/ s[k + 3 * n + 1] \notin Digit

\* s from the boundary after s[k] on, a comma put at every boundary the regex matches
RECURSIVE groupFrom(_, _)
groupFrom(s, k) ==
    (IF NonWordBoundary(s, k) /\ DigitGroupsAhead(s, k) THEN <<",">> ELSE <<>>)
    \o (IF k < Len(s) THEN <<s[k + 1]>> \o groupFrom(s, k + 1) ELSE <<>>)

\* parts[0].replace(/\B(?=(\d{3})+(?!\d))/g, ',')
groupThousands(s) == groupFrom(s, 0)

\* parts = mantissa.split('.'); parts[0] = ...; mantissa = parts.join('.')
groupIntegerPart(m) ==
    IF IndexOf(m, ".") = 0 THEN groupThousands(m)
    ELSE groupThousands(SubSeq(m, 1, IndexOf(m, ".") - 1)) \o SubSeq(m, IndexOf(m, "."), Len(m))

\* eIdx >= 0 ? str.slice(0, eIdx) : str
mantissaPart(s) == IF IndexOf(s, "e") > 0 THEN SubSeq(s, 1, IndexOf(s, "e") - 1) ELSE s

\* eIdx >= 0 ? str.slice(eIdx) : ''
exponentPart(s) == IF IndexOf(s, "e") > 0 THEN SubSeq(s, IndexOf(s, "e"), Len(s)) ELSE <<>>

\* if (mantissa.includes('.')) mantissa = mantissa.replace(/\.?0+$/, '')
stripMantissa(m) == IF IndexOf(m, ".") > 0 THEN removeTrailingZeros(m) ELSE m

\* grouping done on the reassembled string
reassembleGrouped(mantissa, exponent) == groupThousands(mantissa \o exponent)

\* if (!exponent) group the integer part; return mantissa + exponent
reassemble(mantissa, exponent) ==
    (IF exponent = <<>> THEN groupIntegerPart(mantissa) ELSE mantissa) \o exponent

formatDisplay(s) == reassemble(stripMantissa(mantissaPart(s)), exponentPart(s))

formatNumber(s) == formatDisplay(s)

\* raw display strings: an optional sign, digits, an optional fraction, an
\* optional exponent suffix
RawSigns == {<<>>, <<"-">>}

RawIntegers ==
    { <<"0">>,
      <<"7">>,
      <<"1", "2">>,
      <<"1", "2", "3">>,
      <<"1", "2", "3", "4">>,
      <<"1", "2", "3", "4", "5">>,
      <<"1", "0", "0", "0", "0", "0">>,
      <<"1", "2", "3", "4", "5", "6", "7">> }

RawFractions ==
    { <<>>,
      <<".", "5">>,
      <<".", "5", "0">>,
      <<".", "0", "0">>,
      <<".", "1", "2", "5">>,
      <<".", "0", "0", "0", "1">>,
      <<".", "1", "2", "3", "4", "5">> }

RawExponents ==
    { <<>>,
      <<"e", "+", "2", "1">>,
      <<"e", "-", "7">>,
      <<"e", "+", "1", "0", "0", "0">> }

RawStrings ==
    {sg \o ip \o fp \o ex : sg \in RawSigns, ip \in RawIntegers, fp \in RawFractions,
                            ex \in RawExponents}

\* a raw display string is about to be shown
InitFormat == CalculatorIdle /\ EditorClosed /\ str \in RawStrings /\ shown = <<>>

\* formatNumber(str)
FormatRaw ==
    /\ shown = <<>>
    /\ shown' = <<formatNumber(str)>>
    /\ UNCHANGED <<str, calcVars, editorVars, tabVars>>

\* formatNumber of what formatNumber returned
FormatShown ==
    /\ Len(shown) = 1
    /\ shown' = Append(shown, formatNumber(shown[1]))
    /\ UNCHANGED <<str, calcVars, editorVars, tabVars>>

NextFormat == FormatRaw \/ FormatShown

SpecFormat == InitFormat /\ [][NextFormat]_vars

\* C11: formatNumber is idempotent on every raw display string: formatting
\* what formatNumber returned gives the same string again
C11_FormatterIdempotent == Len(shown) = 2 => shown[2] = shown[1]

\* 1234567.00 formatted twice, zeros stripped and digits grouped by the first pass
C11_Witness ==
    /\ str = <<"1", "2", "3", "4", "5", "6", "7", ".", "0", "0">>
    /\ shown = <<<<"1", ",", "2", "3", "4", ",", "5", "6", "7">>, <<"1", ",", "2", "3", "4", ",", "5", "6", "7">>>>

\* the part of s from its first e to its end
ExponentSuffix(s) == SubSeq(s, IndexOf(s, "e"), Len(s))

\* C12: for a raw string with an exponent marker e, formatNumber puts no
\* grouping separator anywhere and returns the suffix from the first e to the
\* end unchanged
C12_ExponentNeverGrouped ==
    (shown # <<>> /\ IndexOf(str, "e") > 0) =>
        /\ CountOf(shown[1], ",") = 0
        /\ IndexOf(shown[1], "e") > 0
        /\ ExponentSuffix(shown[1]) = ExponentSuffix(str)

\* a four-digit mantissa and a four-digit exponent, both left ungrouped
C12_Witness ==
    /\ str = <<"1", "2", "3", "4", ".", "5", "0", "e", "+", "1", "0", "0", "0">>
    /\ shown = <<<<"1", "2", "3", "4", ".", "5", "e", "+", "1", "0", "0", "0">>>>

\* the digits ds with a comma before every group of three counted from the right
RECURSIVE GroupFromRight(_)
GroupFromRight(ds) ==
    IF Len(ds) <= 3 THEN ds
    ELSE GroupFromRight(SubSeq(ds, 1, Len(ds) - 3)) \o <<",">> \o SubSeq(ds, Len(ds) - 2, Len(ds))

\* the fraction digits with the trailing zeros removed, after their decimal
\* point; nothing when no digit remains
FractionShown(fp) ==
    IF StripTrailingZeros(fp) = <<>> THEN <<>> ELSE <<".">> \o StripTrailingZeros(fp)

\* C13: a fixed-point raw string (sign sg, integer digits ip, fraction digits
\* fp) is shown as the sign, the integer digits grouped in threes from the
\* right, and the fraction without its trailing zeros and without separators,
\* the decimal point gone when no fraction digit remains
C13_FixedPointGrouped ==
    shown # <<>> =>
        \A sg \in RawSigns, ip \in RawIntegers, fp \in RawFractions :
            str = sg \o ip \o fp =>
                shown[1] = sg \o GroupFromRight(ip)
                              \o (IF fp = <<>> THEN <<>> ELSE FractionShown(Tail(fp)))

\* a negative seven-digit number with a fraction that ends in a zero
C13_Witness ==
    /\ str = <<"-", "1", "2", "3", "4", "5", "6", "7", ".", "5", "0">>
    /\ shown = <<<<"-", "1", ",", "2", "3", "4", ",", "5", "6", "7", ".", "5">>>>

-----------------------------------------------------------------------------
(* The classifier on lines of every kind                                   *)

\* comments, separators, prose, names, and words that hold a math token or only look like one
ClassifyLineSet ==
    { <<" ", " ">>,
      <<"#", " ", "1", "+", "1">>,
      <<"-", "=", "*">>,
      <<"_">>,
      <<"h", "i">>,
      <<"x", " ", "=", " ", "2">>,
      <<"x">>,
      <<"_", " ", "=", " ", "7">>,
      <<"U+6C34", " ", "=", " ", "3">>,
      <<"U+6C34">>,
      <<"T", "R", "U", "E">>,
      <<"t", "r", "u", "e", "i", "s", "h">>,
      <<"U+623F", "e">> }

\* one pass over a document of these lines
NextClassify ==
    \/ pc = "idle" /\ \E t \in Texts(ClassifyLineSet, MaxLines) : Calculate(t)
    \/ Step
    \/ Return

SpecClassify == Init /\ [][NextClassify]_vars

\* the maximal runs of \w characters of a line, in lower case
WholeWords(line) ==
    {[k \in 1..(b - a + 1) |-> toLowerCase(line[a + k - 1])] :
        <<a, b>> \in {r \in (1..Len(line)) \X (1..Len(line)) :
                        /\ r[1] <= r[2]
                        /\ \A k \in r[1]..r[2] : line[k] \in WordChar
                        /\ r[1] = 1 \/ line[r[1] - 1] \notin WordChar
                        /\ r[2] = Len(line) \/ line[r[2] + 1] \notin WordChar}}

MathToken ==
    { <<"p", "i">>,
      <<"e">>,
      <<"a", "n", "s">>,
      <<"t", "r", "u", "e">>,
      <<"f", "a", "l", "s", "e">>,
      <<"i", "n", "f", "i", "n", "i", "t", "y">> }

\* the characters that keep a line from being prose
MathCharacter == Digit \cup {"=", "(", ")", "^", "+", "-", "*", "/"}

\* the rule of the claim for a line that is not empty, no comment and no separator
SkippedAsProse(ctx, line) ==
    /\ line \notin DOMAIN ctx.scope
    /\ line \notin DOMAIN ctx.mapping.cnToAlias
    /\ \A k \in 1..Len(line) : line[k] \notin MathCharacter
    /\ WholeWords(line) \cap MathToken = {}

\* the rules of the claim in their order, first match wins
SkippedByRule(ctx, line) ==
    \/ line = <<>>
    \/ line # <<>> /\ line[1] = "#"
    \/ line # <<>> /\ \A k \in 1..Len(line) : line[k] \in {"-", "=", "_", ".", "*", "U+00B7", "~"}
    \/ SkippedAsProse(ctx, line)

\* C15: the classifier applies empty, comment, separator, prose, evaluate in
\* this order: a line the rules skip gets a Blank result and never reaches the
\* engine, whatever digits or operators it holds and whatever the scope holds;
\* every other line reaches the engine
C15_ClassifierOrder ==
    last.kind # "none" =>
        IF SkippedByRule(last.before, last.line)
        THEN last.kind = "skip" /\ results[LastIndex] = BlankResult
        ELSE last.kind = "eval" /\ last.st \in {"ok", "throw"}

\* the line _ after _ = 7: a name in scope, and a separator first
C15_Witness ==
    /\ last.kind = "skip"
    /\ last.line = <<"_">>
    /\ <<"_">> \in DOMAIN last.before.scope
    /\ Len(results) = 3
    /\ results[1] = BlankResult
    /\ results[1] = results[3]
    /\ lines[1] = <<"#", " ", "1", "+", "1">>

-----------------------------------------------------------------------------
(* The previous answer                                                     *)

\* lines that use ans, assign it, lead with an operator, or display a value
AnswerLineSet ==
    { <<"a", "n", "s">>,
      <<"a", "n", "s", " ", "+", " ", "1">>,
      <<"a", "n", "s", " ", "=", " ", "5">>,
      <<"a", "n", "s", " ", "=", " ", "t", "r", "u", "e">>,
      <<"-", " ", "5">>,
      <<"*", " ", "2">>,
      <<"1", "0", "0">>,
      <<"h", "i">>,
      <<"x", " ", "=", " ", "t", "r", "u", "e">> }

\* one pass over a document of these lines
NextAnswer ==
    \/ pc = "idle" /\ \E t \in Texts(AnswerLineSet, MaxLines) : Calculate(t)
    \/ Step
    \/ Return

SpecAnswer == Init /\ [][NextAnswer]_vars

\* the tokens read the symbol ans somewhere other than directly before an = sign
ReadsAns(toks) ==
    \E p \in 1..Len(toks) :
        /\ toks[p] = [k |-> "sym", v |-> ANS]
        /\ p = Len(toks) \/ toks[p + 1] # [k |-> "delim", v |-> <<"=">>]

\* C16: previousAnswer starts as none; a line changes it only when its result
\* is Display, and then to that line's value; once set it is never none again.
\* While it is none an evaluated line gets no chaining prefix and no ans
\* binding, so a line that reads ans before any Display result and without a
\* user assignment to ans is an Error
C16_PreviousAnswer ==
    /\ (pc = "loop" /\ i = 0) => previousAnswer = Null
    /\ last.kind # "none" =>
          /\ IF results[LastIndex].display # Null
             THEN previousAnswer = last.value /\ previousAnswer # Null
             ELSE previousAnswer = last.before.previousAnswer
          /\ last.before.previousAnswer # Null => previousAnswer # Null
          /\ (last.before.previousAnswer = Null) =
                (\A k \in 1..Len(last.before.results) : last.before.results[k].display = Null)
    /\ (last.kind = "eval" /\ last.before.previousAnswer = Null) =>
          /\ last.expr = preprocessPercent(last.line)
          /\ last.engineScope = last.before.scope
          /\ (ReadsAns(Tokenize(last.expr, 1, <<>>).toks) /\ ANS \notin DOMAIN last.before.scope)
                => results[LastIndex] = ErrorResult

\* the third line reads ans after a prose line and an operator-leading line
\* with nothing to chain to: no Display result so far, and the line is an Error
C16_Witness ==
    /\ Len(results) = 3
    /\ last.line = <<"a", "n", "s", " ", "+", " ", "1">>
    /\ last.before.previousAnswer = Null
    /\ results[2] = ErrorResult
    /\ lines[2] = <<"*", " ", "2">>
    /\ results[3] = ErrorResult

-----------------------------------------------------------------------------
(* Chaining on answers of many digits                                      *)

\* quotients of more than 12 significant digits, exact values, and lines
\* that multiply the previous answer
ChainLineSet ==
    { <<"1", " ", "/", " ", "3">>,
      <<"2", " ", "/", " ", "3">>,
      <<"1", "0", " ", "/", " ", "4">>,
      <<"7">>,
      <<"*", " ", "3">>,
      <<"*", " ", "2">> }

\* one pass over a document of these lines
NextChain ==
    \/ pc = "idle" /\ \E t \in Texts(ChainLineSet, MaxLines) : Calculate(t)
    \/ Step
    \/ Return

SpecChain == Init /\ [][NextChain]_vars

\* the result of the explicit line `ans` + line in the state before the latest iteration
ExplicitResult == ProcessLine(last.before, ANS \o last.line).ctx.results[LastIndex]

\* C17: a chained line `op X` yields the same result as the explicit line
\* `ans op X` evaluated in the same state
C17_ChainingIsAnsOp ==
    (last.kind = "eval" /\ last.before.previousAnswer # Null
        /\ last.line[1] \in BINARY_OPERATORS)
    => results[LastIndex] = ExplicitResult

-----------------------------------------------------------------------------
(* Aliases next to ASCII names                                             *)

\* non-ASCII variables, and ASCII names of the shape the aliases have
AliasLineSet ==
    { <<"U+623F", " ", "=", " ", "3">>,
      <<"U+623F">>,
      <<"U+6C34", " ", "=", " ", "U+623F", " ", "+", " ", "1">>,
      <<"_", "v", "0", " ", "=", " ", "5">>,
      <<"_", "v", "0">>,
      <<"x", " ", "=", " ", "1">> }

\* one pass over a document of these lines
NextAlias ==
    \/ pc = "idle" /\ \E t \in Texts(AliasLineSet, MaxLines) : Calculate(t)
    \/ Step
    \/ Return

SpecAlias == Init /\ [][NextAlias]_vars

\* the ASCII identifiers of a line
RECURSIVE AsciiIdentifiers(_, _)
AsciiIdentifiers(line, p) ==
    IF p > Len(line) THEN {}
    ELSE IF line[p] \in UnicodeL \cup {"_"}
    THEN (IF \E q \in p..RunEnd(line, p + 1, UnicodeL \cup UnicodeN \cup {"_"}) :
                line[q] \in NonAscii
          THEN {}
          ELSE {SubSeq(line, p, RunEnd(line, p + 1, UnicodeL \cup UnicodeN \cup {"_"}))})
         \cup AsciiIdentifiers(line, RunEnd(line, p + 1, UnicodeL \cup UnicodeN \cup {"_"}) + 1)
    ELSE AsciiIdentifiers(line, p + 1)

\* the ASCII identifiers typed on the first n lines
TypedAscii(n) == UNION {AsciiIdentifiers(lines[j], 1) : j \in 1..n}

\* what a scope holds under a key
Slot(sc, key) == IF key \in DOMAIN sc THEN sc[key] ELSE Null

\* C18: aliasing is transparent: an evaluated line leaves the slot of every
\* non-ASCII variable it does not mention as it was, and leaves every variable
\* typed as an ASCII name (other than ans) that it does not mention as it was
C18_AliasingTransparent ==
    last.kind = "eval" =>
        /\ \A x \in DOMAIN last.before.mapping.cnToAlias :
              (\A p \in 1..Len(NonAsciiIdentifiers(last.line, 1)) :
                    NonAsciiIdentifiers(last.line, 1)[p] # x)
              => Slot(scope, mapping.cnToAlias[x])
                    = Slot(last.before.scope, last.before.mapping.cnToAlias[x])
        /\ \A key \in (TypedAscii(last.index) \cap DOMAIN last.before.scope) \ {ANS} :
              key \notin AsciiIdentifiers(last.line, 1)
              => Slot(scope, key) = Slot(last.before.scope, key)

-----------------------------------------------------------------------------
(* The tab bar (src/src/tabs.ts)                                           *)

\* the largest number of tabs the model opens
MaxTabs == 3

\* `页签 ${n}`
DefaultTitle(n) == <<"U+9875", "U+7B7E", " ">> \o NatToString(n)

\* { id, title, content }
Tab(id, title, content) == [id |-> id, title |-> title, content |-> content]

\* { tabs, activeId }
TabState(tabs, activeId) == [tabs |-> tabs, activeId |-> activeId]

\* the ids of a tab list
TabIds(tabs) == {tabs[k].id : k \in 1..Len(tabs)}

\* uid(): an id that no tab of the list has (generated ids are taken to be
\* distinct); ids are numbered, and 0 is no id
uid(tabs) == CHOOSE n \in 1..(Len(tabs) + 1) :
                 n \notin TabIds(tabs) /\ \A m \in 1..(n - 1) : m \in TabIds(tabs)

\* JSON.stringify(state): an item that parses back to the state
stringify(st) == [valid |-> TRUE, value |-> st]

\* an item that JSON.parse throws on
Unparsable == [valid |-> FALSE, value |-> Null]

\* state.tabs.findIndex(t => t.id === id), 1-based; 0 when absent
findIndex(tabs, id) ==
    IF \E k \in 1..Len(tabs) : tabs[k].id = id
    THEN CHOOSE k \in 1..Len(tabs) : tabs[k].id = id /\ \A j \in 1..(k - 1) : tabs[j].id # id
    ELSE 0

\* the stored state is usable: a non-empty tab list and an activeId
Usable(raw) ==
    /\ raw # Null
    /\ raw.valid
    /\ Len(raw.value.tabs) > 0
    /\ raw.value.activeId # 0

\* parsed.activeId, set to the first tab's id when no tab has it
Repaired(parsed) ==
    IF parsed.activeId \in TabIds(parsed.tabs) THEN parsed
    ELSE TabState(parsed.tabs, parsed.tabs[1].id)

\* the single tab made when nothing usable is stored: the old single-document
\* item when there is one, else the default content
FirstTab(old, defaultContent) ==
    TabState(<<Tab(uid(<<>>), DefaultTitle(1), IF old # Null THEN old.s ELSE defaultContent)>>,
             uid(<<>>))

loadState(storage, defaultContent) ==
    IF Usable(storage.tabs) THEN Repaired(storage.tabs.value)
    ELSE FirstTab(storage.old, defaultContent)

\* localStorage after loadState: the old item is removed when it is read
afterLoad(storage) ==
    IF Usable(storage.tabs) THEN storage ELSE [storage EXCEPT !.old = Null]

\* persist(): localStorage.setItem(TABS_KEY, JSON.stringify(state))
persist(storage, st) == [storage EXCEPT !.tabs = stringify(st)]

\* state.tabs.find(t => t.id === state.activeId)
active(st) == st.tabs[findIndex(st.tabs, st.activeId)]

\* a save that writes to the first tab
withContentFirst(st, content) == [st EXCEPT !.tabs[1].content = content]

\* active().content = content
withContent(st, content) ==
    [st EXCEPT !.tabs[findIndex(st.tabs, st.activeId)].content = content]

\* state.tabs.splice(idx, 1)
splice(tabs, idx) == SubSeq(tabs, 1, idx - 1) \o SubSeq(tabs, idx + 1, Len(tabs))

\* Math.min
Min(a, b) == IF a < b THEN a ELSE b

\* a removal that always activates the first tab left
removedFirst(st, idx) ==
    TabState(splice(st.tabs, idx),
             IF st.activeId = st.tabs[idx].id THEN splice(st.tabs, idx)[1].id ELSE st.activeId)

\* the state after removing the tab at idx: lines 98-102, idx 1-based
removed(st, idx) ==
    TabState(splice(st.tabs, idx),
             IF st.activeId = st.tabs[idx].id
             THEN splice(st.tabs, idx)[Min(idx, Len(st.tabs) - 1)].id
             ELSE st.activeId)

-----------------------------------------------------------------------------
(* The editor (src/src/editor.ts)                                          *)

\* the loop of calculate from line k on
RECURSIVE RunLines(_, _, _)
RunLines(ctx, ls, k) ==
    IF k > Len(ls) THEN ctx.results ELSE RunLines(ProcessLine(ctx, ls[k]).ctx, ls, k + 1)

\* calculate(text).lines
calculate(t) ==
    RunLines([results |-> <<>>, scope |-> <<>>, previousAnswer |-> Null,
              mapping |-> NewMapping], Split(t), 1)

\* the built-in demonstration document: of its lines the model keeps a
\* comment and a sum
DEFAULT_TEXT == <<"#", " ", "d", "e", "m", "o", "\n", "1", " ", "+", " ", "2">>

\* the text of the div renderOutput makes for a line
renderLine(line) ==
    IF line.error THEN <<"U+26A0">>
    ELSE IF line.display # Null THEN formatNumber(line.display.s)
    ELSE <<"U+00A0">>

\* renderOutput(result, heights): one div per result
renderOutput(result) == [k \in 1..Len(result) |-> renderLine(result[k])]

\* lastResult = result; renderOutput(result, heights)
Show(result) ==
    /\ lastResult' = [lines |-> result]
    /\ outputArea' = renderOutput(result)

\* recalculate(), with inputArea.value = value
recalculate(value) == Show(calculate(value))

\* requestAnimationFrame: a handle that no callback held by the browser has
NewHandle == CHOOSE h \in 1..(Cardinality(frames) + 1) :
                 h \notin frames /\ \A g \in 1..(h - 1) : g \in frames

\* a schedule without the rafId test
scheduleAlways ==
    /\ rafId' = NewHandle
    /\ frames' = frames \cup {NewHandle}

\* scheduleRecalculate()
scheduleRecalculate ==
    IF rafId # 0 THEN UNCHANGED <<rafId, frames>>
    ELSE /\ rafId' = NewHandle
         /\ frames' = frames \cup {NewHandle}

\* saveTabContent(content)
saveTabContent(content) ==
    /\ state' = withContent(state, content)
    /\ localStorage' = persist(localStorage, withContent(state, content))

\* onTabSwitch(content)
onTabSwitch(content) ==
    /\ inputArea' = content
    /\ recalculate(content)
    /\ UNCHANGED <<rafId, frames, exported>>

\* the state becomes st, is persisted, and the editor is told when asked to
Activate(st, tell) ==
    /\ state' = st
    /\ localStorage' = persist(localStorage, st)
    /\ IF tell THEN onTabSwitch(active(st).content) ELSE UNCHANGED editorVars

\* the line of the export for line k of the document
exportLine(result, ls, k) ==
    IF k <= Len(result) /\ result[k].display # Null
    THEN ls[k] \o <<" ", " ", "U+2192", " ", " ">> \o formatNumber(result[k].display.s) \o <<NL>>
    ELSE ls[k] \o <<NL>>

\* the loop of exportText from line k on
RECURSIVE exportFrom(_, _, _)
exportFrom(result, ls, k) ==
    IF k > Len(ls) THEN <<>> ELSE exportLine(result, ls, k) \o exportFrom(result, ls, k + 1)

\* the output of exportText: result = lastResult ?? calculate(inputArea.value)
exportOutput(kept, value) ==
    exportFrom(IF kept # Null THEN kept.lines ELSE calculate(value), Split(value), 1)

\* what the user types into a tab
EditorTexts == {<<"1">>, <<"2", "\n", "*", " ", "3">>}

\* what the user renames a tab to
TitleTexts == {<<" ">>, <<" ", "a">>}

TwoTabs == <<Tab(1, DefaultTitle(1), <<"1">>), Tab(2, <<"a">>, <<>>)>>

\* what localStorage holds when the page opens: nothing; the single document
\* of an older version; a saved state; a saved state whose activeId names no
\* tab; an item that does not parse; a saved state without tabs
StoredItems ==
    { [tabs |-> Null, old |-> Null],
      [tabs |-> Null, old |-> Str(<<"1">>)],
      [tabs |-> stringify(TabState(TwoTabs, 2)), old |-> Null],
      [tabs |-> stringify(TabState(TwoTabs, 9)), old |-> Null],
      [tabs |-> Unparsable, old |-> Str(<<>>)],
      [tabs |-> stringify(TabState(<<>>, 2)), old |-> Null] }

\* initEditor has run on the stored items: initTabs, then recalculate
Opened(stored) ==
    /\ state = loadState(stored, DEFAULT_TEXT)
    /\ localStorage = persist(afterLoad(stored), state)
    /\ inputArea = active(state).content
    /\ lastResult = [lines |-> calculate(inputArea)]
    /\ outputArea = renderOutput(lastResult.lines)
    /\ rafId = 0
    /\ frames = {}
    /\ exported = Null

InitEditor == CalculatorIdle /\ FormatterIdle /\ \E stored \in StoredItems : Opened(stored)

\* onInput, the user having changed the text to t
Input(t) ==
    /\ inputArea' = t
    /\ saveTabContent(t)
    /\ scheduleRecalculate
    /\ UNCHANGED <<lastResult, outputArea, exported, calcVars, formatVars>>

\* the ResizeObserver callback
Resize ==
    /\ scheduleRecalculate
    /\ UNCHANGED <<inputArea, lastResult, outputArea, exported, tabVars, calcVars, formatVars>>

\* the browser runs the animation-frame callback with handle h
Frame(h) ==
    /\ h \in frames
    /\ frames' = frames \ {h}
    /\ rafId' = 0
    /\ recalculate(inputArea)
    /\ UNCHANGED <<inputArea, exported, tabVars, calcVars, formatVars>>

FrameFires == \E h \in frames : Frame(h)

\* clearEditor()
Clear ==
    /\ inputArea' = <<>>
    /\ saveTabContent(<<>>)
    /\ recalculate(<<>>)
    /\ UNCHANGED <<rafId, frames, exported, calcVars, formatVars>>

\* exportText(): the downloaded text, kept with the document it was made from
Export ==
    /\ exported' = [text |-> inputArea, output |-> exportOutput(lastResult, inputArea)]
    /\ UNCHANGED <<inputArea, lastResult, rafId, frames, outputArea, tabVars, calcVars, formatVars>>

\* switchTab(id), a click on the button of tab id
SwitchTab(id) ==
    /\ id \in TabIds(state.tabs)
    /\ IF id = state.activeId THEN UNCHANGED <<editorVars, tabVars>>
       ELSE Activate(TabState(state.tabs, id), TRUE)
    /\ UNCHANGED <<calcVars, formatVars>>

\* addTab()
AddTab ==
    /\ Len(state.tabs) < MaxTabs
    /\ Activate(TabState(Append(state.tabs,
                                Tab(uid(state.tabs), DefaultTitle(Len(state.tabs) + 1), <<>>)),
                         uid(state.tabs)), TRUE)
    /\ UNCHANGED <<calcVars, formatVars>>

\* removeTab(id)
RemoveTab(id) ==
    /\ IF Len(state.tabs) <= 1 \/ findIndex(state.tabs, id) = 0
       THEN UNCHANGED <<editorVars, tabVars>>
       ELSE Activate(removed(state, findIndex(state.tabs, id)), state.activeId = id)
    /\ UNCHANGED <<calcVars, formatVars>>

\* startRename(id, span) and the blur that ends it, the input holding v
Rename(id, v) ==
    /\ id \in TabIds(state.tabs)
    /\ Activate(IF Trim(v) # <<>>
                THEN [state EXCEPT !.tabs[findIndex(state.tabs, id)].title = Trim(v)]
                ELSE state, FALSE)
    /\ UNCHANGED <<calcVars, formatVars>>

\* the events of the editor, and clicks on the tabs there are
NextEditor ==
    \/ \E t \in EditorTexts : Input(t)
    \/ Resize
    \/ FrameFires
    \/ Clear
    \/ Export
    \/ \E id \in 1..MaxTabs : SwitchTab(id)

SpecEditor == InitEditor /\ [][NextEditor]_vars

\* a callback leaves the browser's hands, which it does by being run
FrameLeaves == \E h \in frames : frames' = frames \ {h}

\* the browser runs every animation-frame callback it holds
SpecEditorLive == InitEditor /\ [][NextEditor]_vars /\ WF_frames(FrameLeaves)

\* the events of the tab bar, and typing (the animation frames, which leave
\* the tabs alone, are among the events of the editor above)
NextTabs ==
    \/ Input(<<"1">>)
    \/ \E id \in 1..MaxTabs : SwitchTab(id)
    \/ AddTab
    \/ \E id \in 1..(MaxTabs + 1) : RemoveTab(id)
    \/ \E id \in 1..MaxTabs : \E v \in TitleTexts : Rename(id, v)

SpecTabs == InitEditor /\ [][NextTabs]_vars

\* C14: whenever exportText runs, the result it writes next to line i is the
\* one calculate yields for line i of the text being exported (the line is
\* left bare when that result has no display)
C14_ExportPairsCurrentText ==
    exported # Null =>
        exported.output = exportFrom(calculate(exported.text), Split(exported.text), 1)

\* the steps of the page that are not the animation frame leave a pending
\* callback pending and add none to it
NoSecondCallback == (rafId # 0 /\ rafId' # 0) => frames' = frames

\* what the page shows is the result of the text it holds
ShowsCurrentText ==
    /\ lastResult = [lines |-> calculate(inputArea)]
    /\ outputArea = renderOutput(calculate(inputArea))

\* C19: at most one animation-frame callback is pending, and rafId is its
\* handle exactly while it is; input and resize events that come while it is
\* pending add no callback, so they end in the one recalculate of that frame;
\* a pending callback runs, and when none is pending the page shows
\* calculate(current text)
C19_CoalescedAndNeverLost ==
    /\ [](/\ Cardinality(frames) <= 1
          /\ rafId # 0 <=> frames # {}
          /\ rafId # 0 => frames = {rafId}
          /\ rafId = 0 => ShowsCurrentText)
    /\ [][NoSecondCallback]_vars
    /\ (rafId # 0) ~> (rafId = 0 /\ ShowsCurrentText)

\* a frame is pending and the page still shows the results of the text before the input
C19_Witness ==
    /\ rafId # 0
    /\ frames = {rafId}
    /\ inputArea = <<"2", "\n", "*", " ", "3">>
    /\ outputArea = << <<"1">> >>

\* the tabs are the tabs before with the one at idx taken out, and the active
\* tab is the one now at min(idx, length-1) (1-based: min(idx, length)) when
\* the tab taken out was active, else the one that was active
RemovalOf(idx) ==
    /\ state'.tabs = SubSeq(state.tabs, 1, idx - 1) \o SubSeq(state.tabs, idx + 1, Len(state.tabs))
    /\ IF state.tabs[idx].id = state.activeId
       THEN state'.activeId = state'.tabs[IF idx < Len(state'.tabs) THEN idx
                                          ELSE Len(state'.tabs)].id
       ELSE state'.activeId = state.activeId

\* what a step of removeTab(id) does
RemovalStep ==
    \A id \in 1..(MaxTabs + 1) :
        RemoveTab(id) =>
            IF Len(state.tabs) <= 1 \/ id \notin TabIds(state.tabs)
            THEN UNCHANGED vars
            ELSE \E idx \in 1..Len(state.tabs) : state.tabs[idx].id = id /\ RemovalOf(idx)

\* C20: the tab list is never empty and activeId is the id of a tab of it;
\* removeTab on the only tab or on an unknown id changes nothing; removing
\* the active tab at idx activates the tab then at index min(idx, length-1),
\* and removing another tab leaves activeId unchanged
C20_TabStateInvariant ==
    /\ [](/\ Len(state.tabs) >= 1
          /\ state.activeId \in TabIds(state.tabs))
    /\ [][RemovalStep]_vars

\* three tabs were open, the second was active and was removed: the tab that
\* came after it is active
C20_Witness ==
    /\ Len(state.tabs) = 2
    /\ state.tabs[1].id = 1
    /\ state.tabs[2].id = 3
    /\ state.activeId = 3
    /\ state.tabs[2].content = <<"1">>

-----------------------------------------------------------------------------
(* The contents of the tabs                                                *)

\* the largest number of tabs the user types into
MaxContentTabs == 2

\* typing and clearing in the tabs, and the clicks on the tab bar that open,
\* close and choose tabs
NextContents ==
    \/ \E t \in EditorTexts : Input(t)
    \/ Clear
    \/ \E id \in 1..MaxTabs : SwitchTab(id)
    \/ Len(state.tabs) < MaxContentTabs /\ AddTab
    \/ \E id \in 1..MaxTabs : RemoveTab(id)

SpecContents == InitEditor /\ [][NextContents]_vars

\* the tab with this id, in a tab list that has it
TabOf(tabs, id) == tabs[CHOOSE k \in 1..Len(tabs) : tabs[k].id = id]

\* the state differs from the one before in the content of the active tab
\* at most, which is t
SavedOnlyInActive(t) ==
    /\ state'.activeId = state.activeId
    /\ Len(state'.tabs) = Len(state.tabs)
    /\ \A k \in 1..Len(state.tabs) :
           /\ state'.tabs[k].id = state.tabs[k].id
           /\ state'.tabs[k].title = state.tabs[k].title
           /\ state'.tabs[k].content =
                  IF state.tabs[k].id = state.activeId THEN t ELSE state.tabs[k].content

\* a step of typing or clearing saves into the active tab alone
SaveStep ==
    /\ \A t \in EditorTexts : Input(t) => SavedOnlyInActive(t)
    /\ Clear => SavedOnlyInActive(<<>>)

\* a tab that is not the active one keeps its content for as long as it is
\* there, and a switch to it puts that content into the editor
KeepStep ==
    /\ \A id \in TabIds(state.tabs) \cap TabIds(state'.tabs) :
           id # state.activeId => TabOf(state'.tabs, id).content = TabOf(state.tabs, id).content
    /\ \A id \in 1..MaxTabs :
           SwitchTab(id) => inputArea' = TabOf(state.tabs, id).content

\* C21: saving changes the content of the active tab only and no title; the
\* editor text is the stored content of the active tab after every event, a
\* tab that is not active keeps its content, and a switch shows the content
\* of the tab switched to; the state in storage is the state after every event
C21_TabContentsIsolated ==
    /\ [](/\ inputArea = TabOf(state.tabs, state.activeId).content
          /\ localStorage.tabs = [valid |-> TRUE, value |-> state])
    /\ [][SaveStep /\ KeepStep]_vars

\* the user typed into the first tab, opened a second and typed there, and
\* switched back: the editor holds and shows what was typed into the first
C21_Witness ==
    /\ Len(state.tabs) = 2
    /\ state.activeId = state.tabs[1].id
    /\ state.tabs[1].content = <<"2", "\n", "*", " ", "3">>
    /\ state.tabs[2].content = <<"1">>
    /\ inputArea = <<"2", "\n", "*", " ", "3">>
    /\ outputArea = << <<"2">>, <<"6">> >>

====
